---- MODULE Spec2Model ----
(***************************************************************************)
(* Model of inventory.py: the per-resource storage-size lookups.           *)
(*                                                                         *)
(* Every lookup is a synchronous, stateless function of its arguments and  *)
(* of what the cloud provider answers.  A state of the model is one call,   *)
(* pending or completed: the function called, its arguments, the           *)
(* provider's world the call runs against, the service clients the call    *)
(* created, the API requests it issued (in order) and its outcome (a       *)
(* returned value or a raised exception).                                  *)
(*                                                                         *)
(* Python values are modelled as follows.                                  *)
(*   - str: a TLA+ string; f-strings are concatenations (\o).              *)
(*   - int: unbounded in Python, so a byte count is a numeral in base 1024,*)
(*     least significant digit first, without leading zero digits          *)
(*     (0 is <<>>); multiplication is computed digit by digit.             *)
(*   - float: [num |-> n], the value n / FloatScale.                       *)
(*   - dict: a record; list: a sequence; None: the value None.             *)
(***************************************************************************)
EXTENDS Integers, Sequences, FiniteSets, TLC

VARIABLES fn, args, provider, clients, calls, outcome

vars == <<fn, args, provider, clients, calls, outcome>>

(* ------------------------------ bounds --------------------------------- *)
MaxVolumes == 2       \* block devices mapped on one instance
MaxDatapoints == 2    \* datapoints in one get_metric_statistics response
MaxSnapshots == 2     \* snapshots in one describe_cluster_snapshots response
MaxMetrics == 2       \* metrics in one list_metrics enumeration
MaxTime == 3          \* timestamps are drawn from 1..MaxTime
FloatScale == 2       \* a float [num |-> n] is n / FloatScale
Now == 1000000        \* datetime.now(tzutc()), in seconds

(* --------------------------- Python values ----------------------------- *)
None == "<None>"

Base == 1024

RECURSIVE IntLit(_)
\* The Python int n >= 0 as a base-1024 numeral.
IntLit(n) == IF n = 0 THEN <<>> ELSE <<n % Base>> \o IntLit(n \div Base)

RECURSIVE MulCarry(_, _, _)
MulCarry(x, m, carry) ==
    IF x = <<>>
    THEN IntLit(carry)
    ELSE LET p == x[1] * m + carry
         IN  <<p % Base>> \o MulCarry(Tail(x), m, p \div Base)

\* x * m for a Python int x and a small literal m (1 <= m <= 1024).
Times(x, m) == IF x = <<>> THEN <<>> ELSE MulCarry(x, m, 0)

\* int(f): truncation toward zero of a float (the values here are >= 0).
int(f) == IntLit(f.num \div FloatScale)

\* d.get(k, default)
Get(d, k, default) == IF k \in DOMAIN d THEN d[k] ELSE default

\* Mutant of Or: only None is replaced, as by "y if x is None else x".
OrIfNone(x, y) == IF x = None THEN y ELSE x

\* x or y, for x a str or None
Or(x, y) == IF x = None \/ x = "" THEN y ELSE x

\* s.startswith(prefix)
startswith(s, prefix) ==
    Len(s) >= Len(prefix) /\ SubSeq(s, 1, Len(prefix)) = prefix

\* Position at which sorted(..., reverse=True) places x in the already sorted
\* t: after every element whose key is >= x's key (the sort is stable).
RECURSIVE InsertDesc(_, _, _)
InsertDesc(t, x, key) ==
    IF t = <<>> THEN <<x>>
    ELSE IF t[1][key] >= x[key]
         THEN <<t[1]>> \o InsertDesc(Tail(t), x, key)
         ELSE <<x>> \o t

RECURSIVE sorted_reverse(_, _)
\* sorted(s, key=lambda e: e[key], reverse=True)
sorted_reverse(s, key) ==
    IF s = <<>> THEN <<>>
    ELSE InsertDesc(sorted_reverse(SubSeq(s, 1, Len(s) - 1), key), s[Len(s)], key)

SeqsUpTo(S, n) == UNION {[1..k -> S] : k \in 0..n}

Range(s) == {s[i] : i \in 1..Len(s)}

RECURSIVE Flatten(_)
Flatten(ss) == IF ss = <<>> THEN <<>> ELSE ss[1] \o Flatten(Tail(ss))

RECURSIVE SelectIn(_, _)
\* The elements of s whose VolumeId is in ids, in s's order.
SelectIn(s, ids) ==
    IF s = <<>> THEN <<>>
    ELSE (IF s[1].VolumeId \in ids THEN <<s[1]>> ELSE <<>>) \o SelectIn(Tail(s), ids)

Return(v) == [kind |-> "return", value |-> v]
Raise(type, msg) == [kind |-> "raise", type |-> type, msg |-> msg]
Request(service, api, params) == [service |-> service, api |-> api, params |-> params]
Ran(o, cl, ca) == [outcome |-> o, clients |-> cl, calls |-> ca]

(* ------------------------------ inputs --------------------------------- *)
Accounts == {"111122223333"}
Regions == {"us-east-1", "eu-west-1"}
Timestamps == 1..MaxTime

(* ======================= get_ec2_instance_size ========================= *)
InstanceIds == {"i-1"}
VolumeOrder == <<"vol-a", "vol-b", "vol-c">>
VolumeIdSet == Range(VolumeOrder)
VolumeSizes == {IntLit(20), IntLit(100)}

\* The provider's EC2 side: whether the instance exists, the volumes mapped on
\* it as block devices (in device order), and every volume of the region.
Ec2Worlds ==
    {[found |-> f, attached |-> a,
      region_volumes |-> SelectIn([i \in 1..Len(VolumeOrder) |->
                                     [VolumeId |-> VolumeOrder[i], Size |-> sz[VolumeOrder[i]]]],
                                  Range(a) \cup others)] :
        f \in BOOLEAN,
        a \in {s \in SeqsUpTo(VolumeIdSet, MaxVolumes) :
                  \A i, j \in 1..Len(s) : i # j => s[i] # s[j]},
        others \in SUBSET VolumeIdSet,
        sz \in [VolumeIdSet -> VolumeSizes]}

\* An instance that does not exist has no block device.
Ec2Providers == {p \in Ec2Worlds : ~p.found => p.attached = <<>>}

\* ec2.describe_instances(InstanceIds=[instance_id]): one reservation holding
\* the instance, or no reservation.
describe_instances(p, ids) ==
    IF ~p.found THEN [Reservations |-> <<>>]
    ELSE [Reservations |-> <<[Instances |-> <<
            [InstanceId |-> ids[1],
             BlockDeviceMappings |->
                 [i \in 1..Len(p.attached) |->
                     [Ebs |-> [VolumeId |-> p.attached[i]]]]] >>]>>]

\* ec2.describe_volumes(VolumeIds=volume_ids).  VolumeIds is a filter: the
\* EC2 API answers with the named volumes and, when the list is empty (the
\* parameter is then not sent), with every volume of the region.
describe_volumes(p, volume_ids) ==
    [Volumes |-> IF volume_ids = <<>>
                 THEN p.region_volumes
                 ELSE SelectIn(p.region_volumes, Range(volume_ids))]

\* Lines 11-14: the VolumeId of every block device mapping in the response.
collect_volume_ids(response) ==
    Flatten([r \in 1..Len(Get(response, "Reservations", <<>>)) |->
      LET reservation == Get(response, "Reservations", <<>>)[r] IN
      Flatten([n \in 1..Len(Get(reservation, "Instances", <<>>)) |->
        LET instance == Get(reservation, "Instances", <<>>)[n]
            mappings == Get(instance, "BlockDeviceMappings", <<>>)
        IN  [m \in 1..Len(mappings) |-> mappings[m].Ebs.VolumeId]])])

\* Lines 18-23: the record of one volume.
volume_record(account_id, region_name, instance_id, volume) ==
    <<account_id, region_name,
      instance_id \o "::" \o volume.VolumeId,
      Times(Times(Times(volume.Size, 1024), 1024), 1024)>>

get_ec2_instance_size(account_id, region_name, instance_id, p) ==
    LET response1 == describe_instances(p, <<instance_id>>)
        volume_ids == collect_volume_ids(response1)
        response2 == describe_volumes(p, volume_ids)
        found == Get(response2, "Volumes", <<>>)
        volumes == [i \in 1..Len(found) |->
                       volume_record(account_id, region_name, instance_id, found[i])]
    IN  Ran(Return(volumes), <<"ec2">>,
            <<Request("ec2", "describe_instances", [InstanceIds |-> <<instance_id>>]),
              Request("ec2", "describe_volumes", [VolumeIds |-> volume_ids])>>)

Begin_get_ec2_instance_size ==
    \E account_id \in Accounts, region_name \in Regions,
       instance_id \in InstanceIds, p \in Ec2Providers :
        /\ fn = "get_ec2_instance_size"
        /\ args = <<account_id, region_name, instance_id>>
        /\ provider = p

Call_get_ec2_instance_size ==
    /\ fn = "get_ec2_instance_size" /\ outcome.kind = "pending"
    /\ LET r == get_ec2_instance_size(args[1], args[2], args[3], provider)
       IN  /\ clients' = r.clients
           /\ calls' = r.calls
           /\ outcome' = r.outcome
    /\ UNCHANGED <<fn, args, provider>>

(* ======================== get_rds_cluster_size ========================= *)
ClusterIds == {"db-1"}
Engines == {"postgres", "mysql", "aurora", "aurora-mysql", "aurora-postgresql"}
AllocatedStorages == {IntLit(1), IntLit(100)}
MetricValues == {[num |-> 3], [num |-> 4], [num |-> 7]}

\* The provider's RDS side: the clusters describe_db_clusters answers with and
\* the datapoints the monitoring backend holds for VolumeBytesUsed.
RdsProviders ==
    {[DBClusters |-> cs, Datapoints |-> dps] :
        cs \in SeqsUpTo([Engine : Engines, AllocatedStorage : AllocatedStorages], 1),
        dps \in SeqsUpTo([Timestamp : Timestamps, Maximum : MetricValues], MaxDatapoints)}

\* datetime.timedelta(...) and .total_seconds(), in seconds.
minutes(n) == n * 60
days(n) == n * 24 * 60 * 60

describe_db_clusters(p, id) == [DBClusters |-> p.DBClusters]

\* cloudwatch.get_metric_statistics(...) for the cluster's VolumeBytesUsed.
rds_get_metric_statistics(p, params) == [Datapoints |-> p.Datapoints]

\* Lines 46-58: the request for the cluster's VolumeBytesUsed.
rds_metric_request(db_cluster_identifier) ==
    LET period == minutes(30)
        end_time == Now
        start_time == end_time - period
    IN  [Namespace |-> "AWS/RDS",
         MetricName |-> "VolumeBytesUsed",
         Dimensions |-> <<[Name |-> "DBClusterIdentifier", Value |-> db_cluster_identifier]>>,
         StartTime |-> start_time,
         EndTime |-> end_time,
         Statistics |-> <<"Maximum">>,
         Period |-> period,
         Unit |-> "Bytes"]

\* Mutant of latest_maximum: the response's order is trusted.
latest_maximum_unsorted(datapoints_response) == int(datapoints_response[1].Maximum)

\* Lines 61-67: the most recent datapoint's Maximum, as an int.
latest_maximum(datapoints_response) ==
    LET datapoints == sorted_reverse(datapoints_response, "Timestamp")
    IN  int(datapoints[1].Maximum)

\* Mutant of metric_not_found: a size of zero is reported instead.
metric_not_found_as_zero(account_id, region_name, db_cluster_identifier) ==
    Return(<<account_id, region_name, db_cluster_identifier, IntLit(0)>>)

\* Line 60: no datapoint in the window.
metric_not_found(account_id, region_name, db_cluster_identifier) ==
    Raise("Exception",
          "The VolumeBytesUsed metric was not found for DB cluster " \o db_cluster_identifier)

\* Mutant of is_aurora: the prefix is tested without its dash.
is_aurora_without_dash(engine) == startswith(engine, "aurora")

\* Line 34: the engine stores its data in a replicated cluster volume.
is_aurora(engine) == startswith(engine, "aurora-")

get_rds_cluster_size(account_id, region_name, db_cluster_identifier, p) ==
    LET response == describe_db_clusters(p, db_cluster_identifier)
        call1 == Request("rds", "describe_db_clusters",
                         [DBClusterIdentifier |-> db_cluster_identifier])
    IN
    IF response.DBClusters = <<>>
    THEN Ran(Raise("Exception",
                   "DB Cluster " \o db_cluster_identifier \o " was not found"),
             <<"rds">>, <<call1>>)
    ELSE
    LET cluster == response.DBClusters[1]
        engine == cluster.Engine
    IN
    IF ~is_aurora(engine)
    THEN Ran(Return(<<account_id, region_name, db_cluster_identifier,
                      Times(Times(Times(cluster.AllocatedStorage, 1024), 1024), 1024)>>),
             <<"rds">>, <<call1>>)
    ELSE
    LET params == rds_metric_request(db_cluster_identifier)
        response2 == rds_get_metric_statistics(p, params)
        call2 == Request("cloudwatch", "get_metric_statistics", params)
    IN
    IF response2.Datapoints = <<>>
    THEN Ran(metric_not_found(account_id, region_name, db_cluster_identifier),
             <<"rds", "cloudwatch">>, <<call1, call2>>)
    ELSE Ran(Return(<<account_id, region_name, db_cluster_identifier,
                      latest_maximum(response2.Datapoints)>>),
             <<"rds", "cloudwatch">>, <<call1, call2>>)

Begin_get_rds_cluster_size ==
    \E account_id \in Accounts, region_name \in Regions,
       db_cluster_identifier \in ClusterIds, p \in RdsProviders :
        /\ fn = "get_rds_cluster_size"
        /\ args = <<account_id, region_name, db_cluster_identifier>>
        /\ provider = p

Call_get_rds_cluster_size ==
    /\ fn = "get_rds_cluster_size" /\ outcome.kind = "pending"
    /\ LET r == get_rds_cluster_size(args[1], args[2], args[3], provider)
       IN  /\ clients' = r.clients
           /\ calls' = r.calls
           /\ outcome' = r.outcome
    /\ UNCHANGED <<fn, args, provider>>

(* ====================== get_redshift_cluster_size ====================== *)
WarehouseIds == {"dw-1"}
BackupSizes == {IntLit(5), IntLit(300), IntLit(2000)}

\* The provider's Redshift side: the snapshots of the last seven days, in
\* the order the provider answers with.
RedshiftProviders ==
    {[Snapshots |-> ss] :
        ss \in SeqsUpTo([SnapshotCreateTime : Timestamps,
                         TotalBackupSizeInMegaBytes : BackupSizes], MaxSnapshots)}

describe_cluster_snapshots(p, params) == [Snapshots |-> p.Snapshots]

\* Lines 114-123: the request for the cluster's snapshots.
snapshots_request(cluster_identifier) ==
    LET now == Now
        start_time == now - days(7)
    IN  [ClusterIdentifier |-> cluster_identifier,
         StartTime |-> start_time,
         SortingEntities |-> <<[Attribute |-> "CREATE_TIME", SortOrder |-> "DESC"]>>]

\* Mutant of sort_snapshots: the provider's order is trusted.
sort_snapshots_trusting_provider(snapshots_response) == snapshots_response

\* Line 124: the snapshots, latest first.
sort_snapshots(snapshots_response) == sorted_reverse(snapshots_response, "SnapshotCreateTime")

get_redshift_cluster_size(account_id, region_name, cluster_identifier, p) ==
    LET params == snapshots_request(cluster_identifier)
        response == describe_cluster_snapshots(p, params)
        call1 == Request("redshift", "describe_cluster_snapshots", params)
        snapshots == sort_snapshots(response.Snapshots)
    IN
    IF snapshots = <<>>
    THEN Ran(Raise("Exception",
                   "Cluster " \o cluster_identifier
                       \o " does not have any snapshots in the last seven days"),
             <<"redshift">>, <<call1>>)
    ELSE
    LET last_snapshot == snapshots[1]
    IN  Ran(Return(<<account_id, region_name, cluster_identifier,
                     Times(Times(last_snapshot.TotalBackupSizeInMegaBytes, 1024), 1024)>>),
            <<"redshift">>, <<call1>>)

Begin_get_redshift_cluster_size ==
    \E account_id \in Accounts, region_name \in Regions,
       cluster_identifier \in WarehouseIds, p \in RedshiftProviders :
        /\ fn = "get_redshift_cluster_size"
        /\ args = <<account_id, region_name, cluster_identifier>>
        /\ provider = p

Call_get_redshift_cluster_size ==
    /\ fn = "get_redshift_cluster_size" /\ outcome.kind = "pending"
    /\ LET r == get_redshift_cluster_size(args[1], args[2], args[3], provider)
       IN  /\ clients' = r.clients
           /\ calls' = r.calls
           /\ outcome' = r.outcome
    /\ UNCHANGED <<fn, args, provider>>

(* =========================== get_bucket_size =========================== *)
BucketNames == {"b-1"}

\* Lines 146-156.
backup_storage_types ==
    <<"StandardStorage", "StandardIAStorage", "OneZoneIAStorage",
      "GlacierInstantRetrievalStorage", "IntelligentTieringFAStorage",
      "IntelligentTieringIAStorage", "IntelligentTieringAAStorage",
      "IntelligentTieringAIAStorage", "IntelligentTieringDAAStorage">>

\* Lines 157-172 (never read by the function).
other_storage_types ==
    <<"StandardIASizeOverhead", "StandardIAObjectOverhead", "OneZoneIASizeOverhead",
      "ReducedRedundancyStorage", "GlacierInstantRetrievalSizeOverhead",
      "GlacierInstantRetrievalStorage", "GlacierStorage", "GlacierStagingStorage",
      "GlacierObjectOverhead", "GlacierS3ObjectOverhead", "DeepArchiveStorage",
      "DeepArchiveObjectOverhead", "DeepArchiveS3ObjectOverhead",
      "DeepArchiveStagingStorage">>

\* The storage classes the monitoring backend publishes metrics for here.
PublishedStorageTypes == {"StandardStorage", "GlacierInstantRetrievalStorage", "GlacierStorage"}
Averages == {[num |-> 3], [num |-> 7]}
\* The datapoints of one storage class over the window: none, one or two.
BucketDatapoints == SeqsUpTo([Average : Averages], 2)

\* What s3.get_bucket_location does: it raises a ClientError, or answers with
\* a response whose LocationConstraint may be absent, None, empty or a name.
LocationOutcomes ==
    {[error |-> e, response |-> [ResponseMetadata |-> "200"]] :
        e \in {"NoSuchBucket", "AccessDenied"}}
    \cup {[error |-> None, response |-> [ResponseMetadata |-> "200"]]}
    \cup {[error |-> None, response |-> [ResponseMetadata |-> "200", LocationConstraint |-> l]] :
            l \in {None, "", "us-east-1", "eu-west-1", "EU"}}

\* A listed metric: its dimensions.  The last shape lacks the StorageType
\* dimension.
MetricOf(bucket_name, st) ==
    [Dimensions |-> <<[Name |-> "BucketName", Value |-> bucket_name],
                      [Name |-> "StorageType", Value |-> st]>>]
MetricWithoutStorageType(bucket_name) ==
    [Dimensions |-> <<[Name |-> "BucketName", Value |-> bucket_name]>>]
ListedMetrics(bucket_name) ==
    {MetricOf(bucket_name, st) : st \in PublishedStorageTypes}
        \cup {MetricWithoutStorageType(bucket_name)}

\* The metrics of a listing are distinct (a metric is its dimension set).
Listings(bucket_name) ==
    {m \in SeqsUpTo(ListedMetrics(bucket_name), MaxMetrics) :
        \A i, j \in 1..Len(m) : i # j => m[i] # m[j]}

\* The pages a listing arrives in: one page, or two.
Pagings(m) ==
    {<<[Metrics |-> m]>>}
        \cup {<<[Metrics |-> SubSeq(m, 1, k)], [Metrics |-> SubSeq(m, k + 1, Len(m))]>> :
                k \in 0..Len(m)}

StorageTypesIn(m) ==
    {m[i].Dimensions[2].Value : i \in {j \in 1..Len(m) : Len(m[j].Dimensions) = 2}}

\* The provider's side for a bucket is [location, pages, datapoints]: the
\* outcome of get_bucket_location, the pages of list_metrics and, per listed
\* storage class, the datapoints of BucketSizeBytes over the queried window.

\* s3.get_bucket_location(Bucket=bucket_name): the response, when it answers.
get_bucket_location(p, bucket_name) == p.location.response

\* str(exc) of the ClientError the call raises.
client_error(code, operation) ==
    "An error occurred (" \o code \o ") when calling the " \o operation \o " operation"

\* Mutant of validate_bucket: the region check stands after the try block,
\* so its exception is not wrapped.
validate_bucket_region_check_outside_try(p, region_name, bucket_name) ==
    IF p.location.error # None
    THEN Raise("Exception",
               "Bucket " \o bucket_name \o " was not found in Region " \o region_name
                   \o " or credentials are invalid. Inner exception "
                   \o client_error(p.location.error, "GetBucketLocation"))
    ELSE IF Or(Get(get_bucket_location(p, bucket_name), "LocationConstraint", None),
               "us-east-1") # region_name
         THEN Raise("Exception", "Bucket " \o bucket_name \o " is not in Region " \o region_name)
         ELSE [kind |-> "none"]

NoException == [kind |-> "none"]

\* Lines 138-144: NoException when the bucket is where region_name says, the
\* exception raised to the caller otherwise.
validate_bucket(p, region_name, bucket_name) ==
    LET wrapped(exc) ==
            Raise("Exception",
                  "Bucket " \o bucket_name \o " was not found in Region " \o region_name
                      \o " or credentials are invalid. Inner exception " \o exc)
    IN
    IF p.location.error # None
    THEN wrapped(client_error(p.location.error, "GetBucketLocation"))
    ELSE
    LET response == get_bucket_location(p, bucket_name)
        location_constraint == Or(Get(response, "LocationConstraint", None), "us-east-1")
    IN  IF location_constraint # region_name
        THEN wrapped("Bucket " \o bucket_name \o " is not in Region " \o region_name)
        ELSE NoException

\* Line 187: [d['Value'] for d in metric['Dimensions'] if d['Name'] == 'StorageType']
storage_type_values(metric) ==
    LET ds == metric.Dimensions
    IN  Flatten([i \in 1..Len(ds) |->
                    IF ds[i].Name = "StorageType" THEN <<ds[i].Value>> ELSE <<>>])

\* Lines 173-183: the request for one page of the bucket's size metrics.
list_metrics_request(bucket_name, page) ==
    [Namespace |-> "AWS/S3",
     MetricName |-> "BucketSizeBytes",
     Dimensions |-> <<[Name |-> "BucketName", Value |-> bucket_name]>>,
     Page |-> page]

RECURSIVE enumerate_metrics(_, _, _, _)
\* Lines 184-188: page by page, metric by metric.  i is the page, j the
\* metric of that page; the result holds the (storage_type, dimensions)
\* pairs, the number of pages fetched and whether indexing [0] failed.
enumerate_metrics(pages, i, j, metric_dimensions) ==
    IF i > Len(pages)
    THEN [failed |-> FALSE, metric_dimensions |-> metric_dimensions, fetched |-> Len(pages)]
    ELSE IF j > Len(pages[i].Metrics)
    THEN enumerate_metrics(pages, i + 1, 1, metric_dimensions)
    ELSE LET metric == pages[i].Metrics[j]
             values == storage_type_values(metric)
         IN  IF values = <<>>
             THEN [failed |-> TRUE, metric_dimensions |-> metric_dimensions, fetched |-> i]
             ELSE enumerate_metrics(pages, i, j + 1,
                                    Append(metric_dimensions, <<values[1], metric.Dimensions>>))

\* Lines 194-203: the request for one metric's statistics.
s3_metric_request(dimensions) ==
    LET period == days(2)
        end_time == Now
        start_time == end_time - period
    IN  [Namespace |-> "AWS/S3",
         MetricName |-> "BucketSizeBytes",
         Dimensions |-> dimensions,
         StartTime |-> start_time,
         EndTime |-> end_time,
         Statistics |-> <<"Average">>,
         Period |-> period,
         Unit |-> "Bytes"]

\* cloudwatch.get_metric_statistics(...) for one storage class of the bucket.
s3_get_metric_statistics(p, params) ==
    LET st == storage_type_values([Dimensions |-> params.Dimensions])[1]
    IN  [Datapoints |-> p.datapoints[st]]

\* Mutant of is_backup_storage_type: the second list is consulted as well.
is_any_known_storage_type(storage_type) ==
    storage_type \in Range(backup_storage_types) \cup Range(other_storage_types)

\* Line 204: storage_type in backup_storage_types
is_backup_storage_type(storage_type) == storage_type \in Range(backup_storage_types)

\* Mutant of queried_metrics: the allow-list is applied before the queries.
queried_backup_metrics(metric_dimensions) ==
    SelectSeq(metric_dimensions, LAMBDA md : md[1] \in Range(backup_storage_types))

\* Line 193: the metrics the loop queries, i.e. every enumerated one.
queried_metrics(metric_dimensions) == metric_dimensions

\* Mutant of datapoint_0_of_none: what was collected so far is returned.
partial_metric_data(metric_data) == Return(metric_data)

\* Line 206: response['Datapoints'][0] on an empty list.
datapoint_0_of_none(metric_data) == Raise("IndexError", "list index out of range")

RECURSIVE collect_metric_data(_, _, _, _, _, _, _, _)
\* Lines 193-208: one query per element of metric_dimensions from the k-th on.
collect_metric_data(p, account_id, region_name, bucket_name, metric_dimensions, k, metric_data, requests) ==
    IF k > Len(metric_dimensions)
    THEN [outcome |-> Return(metric_data), requests |-> requests]
    ELSE LET storage_type == metric_dimensions[k][1]
             dimensions == metric_dimensions[k][2]
             params == s3_metric_request(dimensions)
             response == s3_get_metric_statistics(p, params)
             issued == Append(requests, Request("cloudwatch", "get_metric_statistics", params))
         IN  IF is_backup_storage_type(storage_type)
             THEN IF response.Datapoints = <<>>
                  THEN [outcome |-> datapoint_0_of_none(metric_data),
                        requests |-> issued]
                  ELSE collect_metric_data(p, account_id, region_name, bucket_name,
                           metric_dimensions, k + 1,
                           Append(metric_data,
                                  <<account_id, region_name,
                                    bucket_name \o "::" \o storage_type,
                                    response.Datapoints[1].Average>>),
                           issued)
             ELSE collect_metric_data(p, account_id, region_name, bucket_name,
                      metric_dimensions, k + 1, metric_data, issued)

get_bucket_size(account_id, region_name, bucket_name, p) ==
    LET call1 == Request("s3", "get_bucket_location", [Bucket |-> bucket_name])
        invalid == validate_bucket(p, region_name, bucket_name)
    IN
    IF invalid.kind = "raise"
    THEN Ran(invalid, <<"s3">>, <<call1>>)
    ELSE
    LET listed == enumerate_metrics(p.pages, 1, 1, <<>>)
        listing == [i \in 1..listed.fetched |->
                       Request("cloudwatch", "list_metrics",
                               list_metrics_request(bucket_name, i))]
    IN
    IF listed.failed
    THEN Ran(Raise("IndexError", "list index out of range"),
             <<"s3", "cloudwatch">>, <<call1>> \o listing)
    ELSE
    LET collected == collect_metric_data(p, account_id, region_name, bucket_name,
                         queried_metrics(listed.metric_dimensions), 1, <<>>, <<>>)
    IN  Ran(collected.outcome, <<"s3", "cloudwatch">>,
            <<call1>> \o listing \o collected.requests)

\* The location outcome with which a bucket passes validation for a region.
LocationIn(region_name) ==
    [error |-> None,
     response |-> [ResponseMetadata |-> "200",
                   LocationConstraint |-> IF region_name = "us-east-1" THEN None
                                          ELSE region_name]]

\* The calls to get_bucket_size.  Every outcome of get_bucket_location is
\* drawn against the listings of at most one metric; the longer listings are
\* drawn for buckets that are in the target region, the location being read
\* by the validation phase only.
Begin_get_bucket_size ==
    \E account_id \in Accounts, region_name \in Regions, bucket_name \in BucketNames :
    \E m \in Listings(bucket_name) :
    \E loc \in IF Len(m) <= 1 THEN LocationOutcomes ELSE {LocationIn(region_name)} :
    \E pg \in Pagings(m),
       dp \in [StorageTypesIn(m) -> BucketDatapoints] :
        /\ fn = "get_bucket_size"
        /\ args = <<account_id, region_name, bucket_name>>
        /\ provider = [location |-> loc, pages |-> pg, datapoints |-> dp]

Call_get_bucket_size ==
    /\ fn = "get_bucket_size" /\ outcome.kind = "pending"
    /\ LET r == get_bucket_size(args[1], args[2], args[3], provider)
       IN  /\ clients' = r.clients
           /\ calls' = r.calls
           /\ outcome' = r.outcome
    /\ UNCHANGED <<fn, args, provider>>

(* ============================= the module ============================== *)
\* A call about to run: the function, its arguments and the provider's world
\* are given; nothing has been created, requested or returned yet.
Init ==
    /\ \/ Begin_get_ec2_instance_size
       \/ Begin_get_rds_cluster_size
       \/ Begin_get_redshift_cluster_size
       \/ Begin_get_bucket_size
    /\ clients = <<>>
    /\ calls = <<>>
    /\ outcome = [kind |-> "pending"]

Next ==
    \/ Call_get_ec2_instance_size
    \/ Call_get_rds_cluster_size
    \/ Call_get_redshift_cluster_size
    \/ Call_get_bucket_size

Spec == Init /\ [][Next]_vars

(* ============================== claims ================================= *)
Done(f) == fn = f /\ outcome.kind # "pending"

account_id_arg == args[1]
region_name_arg == args[2]
resource_arg == args[3]

\* n GiB in bytes and n MiB in bytes, written out in base 1024.
GiBToBytes(n) == IF n = <<>> THEN <<>> ELSE <<0, 0, 0>> \o n
MiBToBytes(n) == IF n = <<>> THEN <<>> ELSE <<0, 0>> \o n

ServicesRequested == {calls[i].service : i \in 1..Len(calls)}
StatisticsRequests == SelectSeq(calls, LAMBDA c : c.api = "get_metric_statistics")

(* ------------------------------- C1 ------------------------------------ *)
SizeInRegion(volume_id) ==
    (CHOOSE v \in Range(provider.region_volumes) : v.VolumeId = volume_id).Size

\* C1: get_ec2_instance_size on an instance with N attached volumes (N >= 0,
\* an instance that is not found included) returns, without raising, exactly
\* N records, one per attached volume:
\* [account_id, region_name, "{instance_id}::{volume_id}", Size * 1024^3].
C1_OneRecordPerAttachedVolume ==
    Done("get_ec2_instance_size") =>
        /\ outcome.kind = "return"
        /\ Len(outcome.value) = Len(provider.attached)
        /\ \A i \in 1..Len(provider.attached) :
              \E j \in 1..Len(outcome.value) :
                  outcome.value[j] =
                      <<account_id_arg, region_name_arg,
                        resource_arg \o "::" \o provider.attached[i],
                        GiBToBytes(SizeInRegion(provider.attached[i]))>>

\* The same, for the instances that have at least one volume attached.
Ec2RecordsOfAttachedVolumes ==
    (Done("get_ec2_instance_size") /\ provider.attached # <<>>) =>
        /\ outcome.kind = "return"
        /\ Len(outcome.value) = Len(provider.attached)
        /\ \A i \in 1..Len(provider.attached) :
              \E j \in 1..Len(outcome.value) :
                  outcome.value[j] =
                      <<account_id_arg, region_name_arg,
                        resource_arg \o "::" \o provider.attached[i],
                        GiBToBytes(SizeInRegion(provider.attached[i]))>>

(* ---------------------------- C2, C3, C4 ------------------------------- *)
AuroraPrefixed == {"aurora-mysql", "aurora-postgresql"}
ClusterFound == provider.DBClusters # <<>>
EngineOfCluster == provider.DBClusters[1].Engine

\* C2: on a cluster whose engine name does not start with "aurora-",
\* get_rds_cluster_size returns the one record
\* [account_id, region_name, cluster id, AllocatedStorage * 1024^3], creates
\* no cloudwatch client and issues no metric query.
C2_NonAuroraReadsAllocatedStorage ==
    (Done("get_rds_cluster_size") /\ ClusterFound /\ EngineOfCluster \notin AuroraPrefixed) =>
        /\ outcome = Return(<<account_id_arg, region_name_arg, resource_arg,
                              GiBToBytes(provider.DBClusters[1].AllocatedStorage)>>)
        /\ "cloudwatch" \notin Range(clients)
        /\ "cloudwatch" \notin ServicesRequested
        /\ StatisticsRequests = <<>>

\* A plain "aurora" cluster answered from its allocated storage although the
\* monitoring backend holds datapoints.
C2_Witness ==
    /\ Done("get_rds_cluster_size") /\ ClusterFound
    /\ EngineOfCluster = "aurora"
    /\ provider.DBClusters[1].AllocatedStorage = IntLit(100)
    /\ provider.Datapoints # <<>>
    /\ outcome.kind = "return"

LatestTimestamp(s, key) == CHOOSE t \in {s[i][key] : i \in 1..Len(s)} :
                               \A i \in 1..Len(s) : s[i][key] <= t

\* n is the float f truncated to an integer.
Truncates(n, f) == n * FloatScale <= f.num /\ f.num < (n + 1) * FloatScale

\* C3: on a cluster whose engine name starts with "aurora-",
\* get_rds_cluster_size queries the monitoring backend and, for every
\* non-empty datapoint list in any order, returns as size the Maximum of the
\* datapoint with the greatest Timestamp, truncated to an integer.
C3_AuroraReadsLatestMaximum ==
    (/\ Done("get_rds_cluster_size") /\ ClusterFound
     /\ EngineOfCluster \in AuroraPrefixed
     /\ provider.Datapoints # <<>>) =>
        /\ Len(StatisticsRequests) = 1
        /\ StatisticsRequests[1].service = "cloudwatch"
        /\ StatisticsRequests[1].params.MetricName = "VolumeBytesUsed"
        /\ StatisticsRequests[1].params.Statistics = <<"Maximum">>
        /\ outcome.kind = "return"
        /\ SubSeq(outcome.value, 1, 3) = <<account_id_arg, region_name_arg, resource_arg>>
        /\ \E i \in 1..Len(provider.Datapoints) :
              /\ provider.Datapoints[i].Timestamp = LatestTimestamp(provider.Datapoints, "Timestamp")
              /\ \E n \in 0..provider.Datapoints[i].Maximum.num :
                    /\ Truncates(n, provider.Datapoints[i].Maximum)
                    /\ outcome.value[4] = IntLit(n)

\* The latest datapoint is not the first of the response, its Maximum is not
\* a whole number and differs from the first one's.
C3_Witness ==
    /\ Done("get_rds_cluster_size") /\ ClusterFound
    /\ EngineOfCluster = "aurora-postgresql"
    /\ Len(provider.Datapoints) >= 2
    /\ provider.Datapoints[1].Timestamp < provider.Datapoints[2].Timestamp
    /\ provider.Datapoints[2].Timestamp = LatestTimestamp(provider.Datapoints, "Timestamp")
    /\ provider.Datapoints[2].Maximum.num % FloatScale # 0
    /\ provider.Datapoints[2].Maximum.num > provider.Datapoints[1].Maximum.num + FloatScale
    /\ outcome.kind = "return"

\* C4: get_rds_cluster_size fails with the not-found error whenever the
\* cluster list is empty, before any metric is queried, and with the
\* metric-not-found error whenever the engine is an "aurora-" engine and the
\* metric query returns no datapoint; neither case returns a record.
C4_RdsFailures ==
    Done("get_rds_cluster_size") =>
        /\ ~ClusterFound =>
              /\ outcome = Raise("Exception", "DB Cluster " \o resource_arg \o " was not found")
              /\ StatisticsRequests = <<>>
              /\ "cloudwatch" \notin Range(clients)
        /\ (ClusterFound /\ EngineOfCluster \in AuroraPrefixed /\ provider.Datapoints = <<>>) =>
              /\ outcome = Raise("Exception",
                     "The VolumeBytesUsed metric was not found for DB cluster " \o resource_arg)
              /\ Len(StatisticsRequests) = 1

C4_Witness ==
    /\ Done("get_rds_cluster_size") /\ ClusterFound
    /\ EngineOfCluster = "aurora-mysql"
    /\ provider.Datapoints = <<>>
    /\ outcome.kind = "raise"

(* ------------------------------- C5 ------------------------------------ *)
\* C5: for every non-empty snapshot list in any order,
\* get_redshift_cluster_size returns TotalBackupSizeInMegaBytes * 1024^2 of
\* the snapshot with the greatest SnapshotCreateTime; for an empty list it
\* fails with the no-snapshots error and returns no record.
C5_LatestSnapshotOrFailure ==
    Done("get_redshift_cluster_size") =>
        IF provider.Snapshots = <<>>
        THEN outcome = Raise("Exception",
                 "Cluster " \o resource_arg
                     \o " does not have any snapshots in the last seven days")
        ELSE /\ outcome.kind = "return"
             /\ SubSeq(outcome.value, 1, 3) = <<account_id_arg, region_name_arg, resource_arg>>
             /\ \E i \in 1..Len(provider.Snapshots) :
                   /\ provider.Snapshots[i].SnapshotCreateTime
                          = LatestTimestamp(provider.Snapshots, "SnapshotCreateTime")
                   /\ outcome.value[4]
                          = MiBToBytes(provider.Snapshots[i].TotalBackupSizeInMegaBytes)

\* The latest snapshot is not the first of the response and has another size.
C5_Witness ==
    /\ Done("get_redshift_cluster_size")
    /\ Len(provider.Snapshots) >= 2
    /\ provider.Snapshots[1].SnapshotCreateTime < provider.Snapshots[2].SnapshotCreateTime
    /\ provider.Snapshots[2].SnapshotCreateTime
           = LatestTimestamp(provider.Snapshots, "SnapshotCreateTime")
    /\ provider.Snapshots[1].TotalBackupSizeInMegaBytes
           # provider.Snapshots[2].TotalBackupSizeInMegaBytes
    /\ provider.Snapshots[2].TotalBackupSizeInMegaBytes = IntLit(2000)
    /\ outcome.kind = "return"

(* --------------------------- C6 .. C10 --------------------------------- *)
Listed == Flatten([i \in 1..Len(provider.pages) |-> provider.pages[i].Metrics])
ListingWellFormed == \A i \in 1..Len(Listed) : Len(Listed[i].Dimensions) = 2
ListedStorageTypes ==
    {Listed[i].Dimensions[2].Value : i \in {j \in 1..Len(Listed) : Len(Listed[j].Dimensions) = 2}}
AllowList == Range(backup_storage_types)
KnownStorageTypes == PublishedStorageTypes \cup AllowList \cup Range(other_storage_types)

LocationAnswered == provider.location.error = None
\* The bucket's declared location, empty or absent read as "us-east-1".
DeclaredLocation ==
    IF "LocationConstraint" \in DOMAIN provider.location.response
       /\ provider.location.response.LocationConstraint \notin {None, ""}
    THEN provider.location.response.LocationConstraint
    ELSE "us-east-1"
LocationIsEmpty ==
    "LocationConstraint" \in DOMAIN provider.location.response
        => provider.location.response.LocationConstraint \in {None, ""}
\* The function went past its validation phase (line 145).
ValidationPassed == "cloudwatch" \in Range(clients)

RecordsFor(st) ==
    {j \in 1..Len(outcome.value) : outcome.value[j][3] = resource_arg \o "::" \o st}

\* C6: what get_bucket_size returns is exactly one record per storage class
\* that appears in the metric listing and belongs to backup_storage_types,
\* keyed "{bucket_name}::{storage_type}"; a storage class outside the list
\* ("GlacierStorage") never has a record, whatever metrics exist for it.
C6_OneRecordPerAllowListedClass ==
    (Done("get_bucket_size") /\ outcome.kind = "return") =>
        /\ ValidationPassed
        /\ \A st \in KnownStorageTypes :
              Cardinality(RecordsFor(st))
                  = IF st \in ListedStorageTypes /\ st \in AllowList THEN 1 ELSE 0
        /\ Len(outcome.value) = Cardinality(ListedStorageTypes \cap AllowList)
        /\ RecordsFor("GlacierStorage") = {}
        /\ \A j \in 1..Len(outcome.value) :
              /\ outcome.value[j][1] = account_id_arg
              /\ outcome.value[j][2] = region_name_arg

\* GlacierStorage and StandardStorage are both listed with datapoints, and
\* one record is returned.
C6_Witness ==
    /\ Done("get_bucket_size") /\ outcome.kind = "return"
    /\ {"GlacierStorage", "StandardStorage"} = ListedStorageTypes
    /\ provider.datapoints["GlacierStorage"] # <<>>
    /\ Len(outcome.value) = 1
    /\ outcome.value[1][3] = "b-1::StandardStorage"

\* C7: validation passes exactly when the bucket's declared location, empty
\* or absent read as "us-east-1", equals region_name; a bucket reporting an
\* empty location passes for "us-east-1" and fails for every other region.
C7_ValidationIffDeclaredRegion ==
    (Done("get_bucket_size") /\ LocationAnswered) =>
        /\ ValidationPassed <=> DeclaredLocation = region_name_arg
        /\ LocationIsEmpty => (ValidationPassed <=> region_name_arg = "us-east-1")

C7_Witness ==
    /\ Done("get_bucket_size") /\ LocationAnswered
    /\ "LocationConstraint" \in DOMAIN provider.location.response
    /\ provider.location.response.LocationConstraint = ""
    /\ region_name_arg = "us-east-1"
    /\ ValidationPassed

\* str() of what the validation phase raised first.
ValidationCause ==
    IF ~LocationAnswered
    THEN "An error occurred (" \o provider.location.error
             \o ") when calling the GetBucketLocation operation"
    ELSE "Bucket " \o resource_arg \o " is not in Region " \o region_name_arg

\* C8: every failure of the validation phase, an error raised by the
\* bucket-location call or a region mismatch, reaches the caller as the one
\* BucketNotFoundOrUnauthorized error that wraps the original cause, and
\* then no metric listing and no metric-statistics query is issued.
C8_ValidationFailuresWrapped ==
    (Done("get_bucket_size")
        /\ (~LocationAnswered \/ DeclaredLocation # region_name_arg)) =>
        /\ outcome = Raise("Exception",
               "Bucket " \o resource_arg \o " was not found in Region " \o region_name_arg
                   \o " or credentials are invalid. Inner exception " \o ValidationCause)
        /\ calls = <<Request("s3", "get_bucket_location", [Bucket |-> resource_arg])>>
        /\ clients = <<"s3">>

\* A region mismatch on a bucket whose metrics are published.
C8_Witness ==
    /\ Done("get_bucket_size") /\ LocationAnswered
    /\ DeclaredLocation = "eu-west-1" /\ region_name_arg = "us-east-1"
    /\ Listed # <<>>
    /\ outcome.kind = "raise"

StorageTypeRequested(c) ==
    (CHOOSE d \in Range(c.params.Dimensions) : d.Name = "StorageType").Value

\* C9, as claimed: a metric-statistics query is issued for each listed
\* metric whose storage class is in the allow-list and never for a metric
\* whose storage class is outside it.
C9_QueriesOnlyAllowListed ==
    Done("get_bucket_size") =>
        \A k \in 1..Len(StatisticsRequests) :
            StorageTypeRequested(StatisticsRequests[k]) \in AllowList

\* C9, amended: a metric-statistics query (Average over the trailing 2-day
\* window) is issued for every listed metric in listing order, whatever its
\* storage class, up to the end of the listing or to the metric at which the
\* lookup fails; the allow-list only decides, after the query, whether the
\* response is collected.
C9_QueriesEveryListedMetric ==
    (Done("get_bucket_size") /\ ValidationPassed) =>
        /\ Len(StatisticsRequests) <= Len(Listed)
        /\ \A k \in 1..Len(StatisticsRequests) :
              /\ StatisticsRequests[k].params.Dimensions = Listed[k].Dimensions
              /\ StatisticsRequests[k].params.Statistics = <<"Average">>
              /\ StatisticsRequests[k].params.Period = 2 * 24 * 60 * 60
              /\ StatisticsRequests[k].params.StartTime
                     = StatisticsRequests[k].params.EndTime - 2 * 24 * 60 * 60
        /\ outcome.kind = "return" =>
              /\ Len(StatisticsRequests) = Len(Listed)
              /\ \A j \in 1..Len(outcome.value) :
                    \E st \in ListedStorageTypes \cap AllowList :
                        outcome.value[j][3] = resource_arg \o "::" \o st
        /\ (outcome.kind = "raise" /\ ListingWellFormed) =>
              /\ StatisticsRequests # <<>>
              /\ provider.datapoints[StorageTypeRequested(
                     StatisticsRequests[Len(StatisticsRequests)])] = <<>>
        /\ ~ListingWellFormed => StatisticsRequests = <<>>

\* A query was issued for GlacierStorage, which is outside the allow-list.
C9_Witness ==
    /\ Done("get_bucket_size") /\ outcome.kind = "return"
    /\ "StandardStorage" \in ListedStorageTypes
    /\ \E k \in 1..Len(StatisticsRequests) :
          StorageTypeRequested(StatisticsRequests[k]) = "GlacierStorage"

\* C10: if the provider returns no datapoint for a listed metric of the
\* allow-list, the lookup raises and returns no record, however many metrics
\* were collected before; no datapoint for a metric outside the allow-list
\* does not make the lookup fail.
C10_AllOrNothing ==
    (Done("get_bucket_size") /\ ValidationPassed) =>
        /\ (\E st \in ListedStorageTypes \cap AllowList : provider.datapoints[st] = <<>>)
              => outcome.kind = "raise"
        /\ (/\ ListingWellFormed
            /\ \A st \in ListedStorageTypes \cap AllowList : provider.datapoints[st] # <<>>)
              => outcome.kind = "return"

\* The first listed metric was collected, the second has no datapoint.
C10_Witness ==
    /\ Done("get_bucket_size") /\ ValidationPassed
    /\ Len(Listed) >= 2 /\ ListingWellFormed
    /\ Listed[1].Dimensions[2].Value = "StandardStorage"
    /\ provider.datapoints["StandardStorage"] # <<>>
    /\ Listed[2].Dimensions[2].Value = "GlacierInstantRetrievalStorage"
    /\ provider.datapoints["GlacierInstantRetrievalStorage"] = <<>>
    /\ outcome = Raise("IndexError", "list index out of range")

====
